---- MODULE Spec2Model ----
(***************************************************************************)
(* x402 payment flow of swarms:                                            *)
(*   swarms/structs/x402_payment_agent.py  X402PaymentAgent                *)
(*   swarms/tools/x402_payment_tool.py     x402_payment_full_flow,         *)
(*                                         x402_payment_tool               *)
(* One program run is either an X402PaymentAgent instance (constructed,    *)
(* then complete_payment_flow called any number of times) or calls of the  *)
(* module-level x402_payment_full_flow or of the module-level              *)
(* x402_payment_tool.  The facilitator is a black box:                     *)
(* every HTTP call is a send step followed by a receive step whose answer  *)
(* is chosen from Answers.                                                 *)
(***************************************************************************)
EXTENDS Integers, Sequences, FiniteSets, TLC

VARIABLES
    prog,             \* "agent" | "full" | "tool" | "gateway": the entry
                      \* point this run exercises
    pc,               \* position of the (single) thread of control
    facilitator_url,  \* self.facilitator_url: "primary" | "mock"
                      \* (in x402_payment_tool: its local facilitator_url)
    finfo,            \* self._facilitator_info: <<>> is {}, else <<info>>
    memo,             \* the memo argument of the running flow is non-empty
    create_res,       \* local create_res of create_payment_session (<<>> unset)
    verify_res,       \* local verify_res of complete_payment_flow (<<>> unset)
    result,           \* the dict returned by the flow: key |-> <<>> or <<stage>>
    log,              \* requests issued since the operation started, in order
    raised,           \* an exception left the public operation
    signer,           \* what _sign_eip712 met in the running signed verify
    config,           \* arguments and environment: private key, eth_account
                      \* importable, network argument, X402_NETWORK
    wallet_address,   \* self.wallet_address (from_address in the tool): "none"
                      \* is None
    network,          \* self.network (network in the tool): "none" is None
    gateway,          \* the middleware of require_payment and its request
    suspended         \* the other complete_payment_flow calls running on the
                      \* same instance, each with its own locals

\* what only the start of a call may write
frame == <<config, wallet_address, network, gateway, suspended>>

vars == <<prog, pc, facilitator_url, finfo, memo, create_res, verify_res,
          result, log, raised, signer, frame>>

----------------------------------------------------------------------------
(* The facilitator's possible answers.                                      *)

HttpStatuses == {200, 201, 400, 404, 500}

ListStatuses == {200, 404, 500}

\* raw response bodies: a JSON object, JSON that is not an object, not JSON
Bodies == {"json_object", "json_array", "not_json"}

\* the bodies tried with a non-2xx status, where no code reads the payload
ErrorBodies == {"json_object", "not_json"}

TransportFailure == [kind |-> "transport", status |-> 0, body |-> "none"]

Answers ==
    {a \in [kind : {"http"}, status : HttpStatuses, body : Bodies] :
        (200 <= a.status /\ a.status < 300) \/ a.body \in ErrorBodies}
        \cup {TransportFailure}

ListAnswers ==
    [kind : {"http"}, status : ListStatuses, body : {"json_object"}]
        \cup {TransportFailure}

----------------------------------------------------------------------------
(* Result dictionaries.  A key that is absent from the Python dict holds    *)
(* FALSE, "none" or <<>> here; `call` is the index in log of the request    *)
(* whose outcome the dictionary reports (0: none).                          *)

SkipVerifyMsg == "create failed; skipping verify"

SkipSettleMsg == "verify failed; skipping settle"

NoDiagnostics ==
    [note |-> FALSE, facilitator_list |-> <<>>, create_response |-> <<>>,
     signature_attempt |-> <<>>, verify_response |-> <<>>]

Blank ==
    [status_code |-> 0, payload |-> "none", headers |-> FALSE,
     error |-> "none", request_body |-> FALSE, response_text |-> FALSE,
     facilitator_info |-> FALSE, diagnostics |-> NoDiagnostics, call |-> 0]

Is2xx(s) == 200 <= s /\ s < 300

\* r.json() with the fallback {"text": r.text}
ParseJson(body) ==
    CASE body = "json_object" -> "dict"
      [] body = "json_array"  -> "list"
      [] OTHER                -> "text_dict"

\* DiscoverInfo that reports a 5xx answer like a transport failure
DiscoverInfoCollapses5xx(ans) ==
    [status_code |-> IF ans.status >= 500 THEN 0 ELSE ans.status,
     ok |-> ans.kind = "http" /\ ans.status < 500]

\* discover_facilitator: the info it caches and returns
DiscoverInfo(ans) == [status_code |-> ans.status, ok |-> ans.kind = "http"]

\* PaidApiResult that reports a 5xx answer like a transport failure
PaidApiResultCollapses5xx(ans, idx) ==
    IF ans.kind = "transport" \/ ans.status >= 500
    THEN [Blank EXCEPT !.error = "transport", !.call = idx]
    ELSE [Blank EXCEPT !.status_code = ans.status,
                       !.payload = ParseJson(ans.body),
                       !.headers = TRUE,
                       !.request_body = ~Is2xx(ans.status),
                       !.response_text = ~Is2xx(ans.status),
                       !.call = idx]

\* paid_api_call: the result for one answer to its POST (request number idx)
PaidApiResult(ans, idx) ==
    IF ans.kind = "transport"
    THEN [Blank EXCEPT !.error = "transport", !.call = idx]
    ELSE [Blank EXCEPT !.status_code = ans.status,
                       !.payload = ParseJson(ans.body),
                       !.headers = TRUE,
                       !.request_body = ~Is2xx(ans.status),
                       !.response_text = ~Is2xx(ans.status),
                       !.call = idx]

\* NeedsDiscovery that does not look at the cache
NeedsDiscoveryAnyCache(ans) ==
    ans.kind = "http" /\ ~Is2xx(ans.status)

\* NeedsDiscovery that also probes when the cache holds a failed probe
NeedsDiscoveryOnFailedCache(ans) ==
    ans.kind = "http" /\ ~Is2xx(ans.status)
        /\ (finfo = <<>> \/ ~finfo[1].ok)

\* paid_api_call probes /list itself when a non-2xx answer meets an empty cache
NeedsDiscovery(ans) ==
    ans.kind = "http" /\ ~Is2xx(ans.status) /\ finfo = <<>>

----------------------------------------------------------------------------
(* The request log.                                                         *)

\* a key set only when its value is truthy: lines 108-111 (33-38, 86-92 in
\* the tool)
Optional(value) == IF value = "none" THEN "absent" ELSE value

\* a key that is always set, to null for None: line 313
Nullable(value) == IF value = "none" THEN "null" ELSE value

\* PlainBody with from_address set whatever the wallet address is
PlainBodyAlwaysFrom ==
    [kind |-> "plain", metadata |-> memo, signature |-> FALSE,
     from_address |-> Nullable(wallet_address),
     network |-> Optional(network)]

\* the JSON body of paid_api_call: amount, currency and, with a memo, metadata,
\* with a wallet address from_address, with a network network
PlainBody ==
    [kind |-> "plain", metadata |-> memo, signature |-> FALSE,
     from_address |-> Optional(wallet_address),
     network |-> Optional(network)]

\* the body of verify_with_signature; signature is FALSE for "signature": null
SignedBody(sig) ==
    [kind |-> "eip712", metadata |-> memo, signature |-> sig,
     from_address |-> Nullable(wallet_address),
     network |-> Nullable(network)]

NoBody ==
    [kind |-> "none", metadata |-> FALSE, signature |-> FALSE,
     from_address |-> "absent", network |-> "absent"]

Request(site, method, ep, body) ==
    [site |-> site, method |-> method, ep |-> ep, body |-> body,
     url |-> facilitator_url, state |-> "pending", code |-> 0]

Send(site, method, ep, body) ==
    log' = Append(log, Request(site, method, ep, body))

Answered(l, ans) ==
    [l EXCEPT ![Len(l)].state =
                  IF ans.kind = "http" THEN "answered" ELSE "failed",
              ![Len(l)].code = ans.status]

\* the nested GET /list of paid_api_call, answered within the same call
NestedList(l, lst) ==
    Answered(Append(l, Request("paid_api_call", "GET", "list", NoBody)), lst)

\* receive the answer of a paid_api_call POST; lst answers its nested probe
PaidApiReceive(ans, lst) ==
    IF NeedsDiscovery(ans)
    THEN /\ log' = NestedList(Answered(log, ans), lst)
         /\ finfo' = <<DiscoverInfo(lst)>>
    ELSE /\ log' = Answered(log, ans)
         /\ finfo' = finfo

NestedAnswers(ans) ==
    IF NeedsDiscovery(ans) THEN ListAnswers ELSE {TransportFailure}

PaidApiReturn(ans) ==
    [PaidApiResult(ans, Len(log)) EXCEPT !.facilitator_info = NeedsDiscovery(ans)]

EmptyResult == [create |-> <<>>, verify |-> <<>>, settle |-> <<>>]

----------------------------------------------------------------------------
(* Configuration: the arguments and the environment of a run.               *)

\* the private key given by argument or environment: none, one that
\* eth_account rejects, a valid one
PrivateKeys == {"none", "bad", "good"}

NetworkArgs == {"none", "base"}

NetworkEnvs == {"none", "base-sepolia"}

Configs ==
    [private_key : PrivateKeys, account : BOOLEAN,
     net_arg : NetworkArgs, net_env : NetworkEnvs]

\* nothing configured and eth_account not installed
Unconfigured ==
    [private_key |-> "none", account |-> FALSE,
     net_arg |-> "none", net_env |-> "none"]

\* eth_account installed and a valid private key configured
Equipped ==
    [private_key |-> "good", account |-> TRUE,
     net_arg |-> "none", net_env |-> "none"]

\* x402_payment_tool.py lines 14-23: _derive_address_from_private_key
DeriveAddress(c) ==
    IF c.private_key = "none" THEN "none"
    ELSE IF ~c.account THEN "none"
    ELSE IF c.private_key = "bad" THEN "none"
    ELSE "addr"

\* lines 33-42 and 68-77: wallet_address after the constructor's init_wallet,
\* which raises without eth_account or on a bad key and is caught at line 41
InitWallet(c) ==
    IF c.private_key = "none" THEN "none"
    ELSE IF ~c.account \/ c.private_key = "bad" THEN "none"
    ELSE "addr"

\* line 34 (line 29 in x402_payment_tool): network or os.getenv("X402_NETWORK")
ConfiguredNetwork(c) ==
    IF c.net_arg # "none" THEN c.net_arg ELSE c.net_env

\* x402_payment_tool.py lines 88-89: the environment is read under
\* `if network:` only
FullFlowNetwork(c) ==
    IF c.net_arg # "none" THEN ConfiguredNetwork(c) ELSE "none"

\* no gateway is part of the run
NoGateway ==
    [pattern |-> <<>>, has_url |-> FALSE, path |-> <<>>, header |-> <<>>,
     forwarded |-> FALSE, response |-> <<>>]

----------------------------------------------------------------------------
(* X402PaymentAgent.__init__                                                *)

\* Unusable for an unreachable facilitator only
UnusableOnlyUnreachable(info) == info.status_code = 0

\* the liveness rule of the constructor
Unusable(info) == info.status_code = 0 \/ info.status_code >= 500

Init ==
    /\ prog \in {"agent", "full", "tool"}
    /\ pc = CASE prog = "agent" -> "ctor"
            [] prog = "full"  -> "idle"
            [] prog = "tool"  -> "tool_idle"
    /\ facilitator_url = "primary"
    /\ finfo = <<>>
    /\ memo = FALSE
    /\ create_res = <<>>
    /\ verify_res = <<>>
    /\ result = EmptyResult
    /\ log = <<>>
    /\ raised = FALSE
    /\ signer = "unset"
    /\ config \in {Unconfigured, Equipped}
    /\ wallet_address = IF prog = "agent" THEN InitWallet(config) ELSE "none"
    /\ network = IF prog = "agent" THEN ConfiguredNetwork(config) ELSE "none"
    /\ gateway = NoGateway
    /\ suspended = <<>>

CtorProbeSend ==
    /\ pc = "ctor"
    /\ Send("__init__", "GET", "list", NoBody)
    /\ pc' = "ctor_probe"
    /\ UNCHANGED <<frame, prog, signer, facilitator_url, finfo, memo,
                   create_res, verify_res, result, raised>>

CtorProbeRecv ==
    /\ pc = "ctor_probe"
    /\ \E ans \in ListAnswers :
        LET info == DiscoverInfo(ans) IN
        /\ log' = Answered(log, ans)
        /\ finfo' = <<info>>
        /\ IF Unusable(info)
           THEN facilitator_url' = "mock" /\ pc' = "ctor_refresh"
           ELSE facilitator_url' = facilitator_url /\ pc' = "idle"
    /\ UNCHANGED <<frame, prog, signer, memo, create_res, verify_res, result,
                   raised>>

CtorRefreshSend ==
    /\ pc = "ctor_refresh"
    /\ Send("__init__", "GET", "list", NoBody)
    /\ pc' = "ctor_refresh_wait"
    /\ UNCHANGED <<frame, prog, signer, facilitator_url, finfo, memo,
                   create_res, verify_res, result, raised>>

\* CtorRefreshRecv that goes back to the primary URL when the re-probe fails
CtorRefreshRecvReverts ==
    /\ pc = "ctor_refresh_wait"
    /\ \E ans \in ListAnswers :
        /\ log' = Answered(log, ans)
        /\ finfo' = <<DiscoverInfo(ans)>>
        /\ facilitator_url' =
               IF Unusable(DiscoverInfo(ans)) THEN "primary"
               ELSE facilitator_url
    /\ pc' = "idle"
    /\ UNCHANGED <<frame, prog, signer, memo, create_res, verify_res, result,
                   raised>>

\* lines 55-58: the re-probe of the substituted URL
CtorRefreshRecv ==
    /\ pc = "ctor_refresh_wait"
    /\ \E ans \in ListAnswers :
        /\ log' = Answered(log, ans)
        /\ finfo' = <<DiscoverInfo(ans)>>
    /\ pc' = "idle"
    /\ UNCHANGED <<frame, prog, signer, facilitator_url, memo, create_res,
                   verify_res, result, raised>>

----------------------------------------------------------------------------
(* A call of the flow and its return.                                       *)

StartFlow ==
    /\ pc = "idle"
    /\ \E m \in BOOLEAN : memo' = m
    /\ pc' = IF prog = "agent" THEN "cps_create" ELSE "ff_create"
    /\ log' = <<>>
    /\ result' = EmptyResult
    /\ create_res' = <<>>
    /\ verify_res' = <<>>
    /\ wallet_address' =
           IF prog = "full" THEN DeriveAddress(config) ELSE wallet_address
    /\ network' = IF prog = "full" THEN FullFlowNetwork(config) ELSE network
    /\ UNCHANGED <<config, gateway, suspended, prog, signer, facilitator_url,
                   finfo, raised>>

\* line 246 (148 in the tool): the result goes to the caller
Return ==
    /\ pc = "done"
    /\ pc' = "idle"
    /\ result' = EmptyResult
    /\ log' = <<>>
    /\ memo' = FALSE
    /\ UNCHANGED <<frame, prog, signer, facilitator_url, finfo, create_res,
                   verify_res, raised>>

----------------------------------------------------------------------------
(* X402PaymentAgent.create_payment_session                                  *)

\* line 151: .get on a payload that is not a dict raises AttributeError
RelabelRaises(v) == v.payload = "list"

\* lines 148-156: a successful verify reported as the create result
Relabelled(v) ==
    [Blank EXCEPT !.status_code = v.status_code,
                  !.payload = "verified-as-create",
                  !.headers = v.headers,
                  !.call = v.call]

\* WithCreateDiagnostics without the probe of line 166
WithCreateNoteOnly(c, info) ==
    [c EXCEPT !.diagnostics.note = TRUE]

\* lines 164-166: the diagnostics added to a create result of status 400
WithCreateDiagnostics(c, info) ==
    [c EXCEPT !.diagnostics.note = TRUE,
              !.diagnostics.facilitator_list = <<info.status_code>>]

\* lines 183-184 and 223-224: the stage recorded when the stage's code raised
ExceptionResult == [Blank EXCEPT !.error = "exception"]

\* lines 180-184: create_payment_session returned c
CreateReturned(c) ==
    /\ result' = [result EXCEPT !.create = <<c>>]
    /\ raised' = raised
    /\ pc' = "cpf_verify"

\* CreateRaised without the handler of lines 183-184
CreateRaisedUncaught ==
    /\ result' = result
    /\ raised' = TRUE
    /\ pc' = "done"

\* lines 183-184: create_payment_session raised
CreateRaised ==
    /\ result' = [result EXCEPT !.create = <<ExceptionResult>>]
    /\ raised' = raised
    /\ pc' = "cpf_verify"

CreateSend ==
    /\ pc = "cps_create"
    /\ Send("create_payment_session", "POST", "create_payment", PlainBody)
    /\ pc' = "cps_create_wait"
    /\ UNCHANGED <<frame, prog, signer, facilitator_url, finfo, memo,
                   create_res, verify_res, result, raised>>

\* lines 141-144, 158, 170
CreateRecv ==
    /\ pc = "cps_create_wait"
    /\ \E ans \in Answers : \E lst \in NestedAnswers(ans) :
        LET c == PaidApiReturn(ans) IN
        /\ PaidApiReceive(ans, lst)
        /\ IF c.status_code \in {400, 404}
           THEN /\ create_res' = <<c>>
                /\ pc' = "cps_verify"
                /\ UNCHANGED <<result, raised>>
           ELSE /\ create_res' = <<>>
                /\ CreateReturned(c)
    /\ UNCHANGED <<frame, prog, signer, facilitator_url, memo, verify_res>>

\* lines 146 and 162
SessionVerifySend ==
    /\ pc = "cps_verify"
    /\ Send("create_payment_session", "POST", "verify", PlainBody)
    /\ pc' = "cps_verify_wait"
    /\ UNCHANGED <<frame, prog, signer, facilitator_url, finfo, memo,
                   create_res, verify_res, result, raised>>

\* lines 146-157 (create answered 404) and 162 (create answered 400)
SessionVerifyRecv ==
    /\ pc = "cps_verify_wait"
    /\ \E ans \in Answers : \E lst \in NestedAnswers(ans) :
        LET v == PaidApiReturn(ans) IN
        /\ PaidApiReceive(ans, lst)
        /\ IF create_res[1].status_code = 404
           THEN /\ create_res' = <<>>
                /\ IF Is2xx(v.status_code)
                   THEN IF RelabelRaises(v)
                        THEN CreateRaised
                        ELSE CreateReturned(Relabelled(v))
                   ELSE CreateReturned(v)
           ELSE /\ create_res' = create_res
                /\ pc' = "cps_list"
                /\ UNCHANGED <<result, raised>>
    /\ UNCHANGED <<frame, prog, signer, facilitator_url, memo, verify_res>>

\* line 166: discover_facilitator()
SessionListSend ==
    /\ pc = "cps_list"
    /\ Send("create_payment_session", "GET", "list", NoBody)
    /\ pc' = "cps_list_wait"
    /\ UNCHANGED <<frame, prog, signer, facilitator_url, finfo, memo,
                   create_res, verify_res, result, raised>>

\* SessionListRecv that applies the constructor's URL rule to its probe
SessionListRecvFallsBack ==
    /\ pc = "cps_list_wait"
    /\ \E ans \in ListAnswers :
        LET info == DiscoverInfo(ans) IN
        /\ log' = Answered(log, ans)
        /\ finfo' = <<info>>
        /\ facilitator_url' =
               IF Unusable(info) THEN "mock" ELSE facilitator_url
        /\ CreateReturned(WithCreateDiagnostics(create_res[1], info))
    /\ create_res' = <<>>
    /\ UNCHANGED <<frame, prog, signer, memo, verify_res>>

\* lines 164-169
SessionListRecv ==
    /\ pc = "cps_list_wait"
    /\ \E ans \in ListAnswers :
        LET info == DiscoverInfo(ans) IN
        /\ log' = Answered(log, ans)
        /\ finfo' = <<info>>
        /\ CreateReturned(WithCreateDiagnostics(create_res[1], info))
    /\ create_res' = <<>>
    /\ UNCHANGED <<frame, prog, signer, facilitator_url, memo, verify_res>>

----------------------------------------------------------------------------
(* X402PaymentAgent.complete_payment_flow and verify_with_signature         *)

\* VerifyPath with the normal path lost
VerifyPathFallbackOnly(status) ==
    IF status \in {400, 404} THEN "fallback" ELSE "skip"

\* VerifyPath with every failed create sent to the fallback
VerifyPathAnyFailure(status) ==
    IF Is2xx(status) THEN "normal" ELSE "fallback"

\* lines 188-221: what the flow does for a create stage of this status
VerifyPath(status) ==
    IF Is2xx(status) THEN "normal"
    ELSE IF status \in {400, 404} THEN "fallback"
    ELSE "skip"

\* SettlePath without the last resort of lines 231-239
SettlePathSuccessOnly(vstatus) ==
    IF Is2xx(vstatus) THEN "settle" ELSE "skip"

\* SettlePath that settles as a last resort after any failed verify
SettlePathAnyFailure(vstatus) ==
    IF Is2xx(vstatus) THEN "settle" ELSE "last_resort"

\* SettlePath with 500 among the last-resort statuses
SettlePathWith500(vstatus) ==
    IF Is2xx(vstatus) THEN "settle"
    ELSE IF vstatus \in {400, 404, 500} THEN "last_resort"
    ELSE "skip"

\* lines 227-241: what the flow does for a verify stage of this status
SettlePath(vstatus) ==
    IF Is2xx(vstatus) THEN "settle"
    ELSE IF vstatus \in {400, 404} THEN "last_resort"
    ELSE "skip"

SkipVerify == [Blank EXCEPT !.error = SkipVerifyMsg]

SkipSettle == [Blank EXCEPT !.error = SkipSettleMsg]

\* NeedsSignature for a verify answer of 400 alone
NeedsSignatureOn400(v) == v.status_code = 400

\* lines 199-201: the simple verify of the fallback path did not succeed
NeedsSignature(v) == ~Is2xx(v.status_code)

\* lines 214-219
WithCreateResponse(v, c) ==
    [v EXCEPT !.diagnostics.create_response = <<c.status_code>>]

\* VerifyAfterSignature that never lets the signed result supersede
VerifyAfterSignatureKeepsPrimary(v, sig, c) ==
    [v EXCEPT !.diagnostics.create_response = <<c.status_code>>,
              !.diagnostics.signature_attempt = <<sig.status_code>>]

\* lines 203-212: the verify stage once the signed attempt has returned
VerifyAfterSignature(v, sig, c) ==
    IF Is2xx(sig.status_code)
    THEN sig
    ELSE [v EXCEPT !.diagnostics.create_response = <<c.status_code>>,
                   !.diagnostics.signature_attempt = <<sig.status_code>>]

\* lines 316-324: the result of verify_with_signature (request number idx)
SignatureResult(ans, idx) ==
    IF ans.kind = "transport"
    THEN [Blank EXCEPT !.error = "transport", !.request_body = TRUE,
                       !.call = idx]
    ELSE [Blank EXCEPT !.status_code = ans.status,
                       !.payload = ParseJson(ans.body),
                       !.headers = TRUE,
                       !.request_body = TRUE,
                       !.call = idx]

\* what _sign_eip712 can meet: no eth_account module, a signing step that
\* raises (no or bad key, missing encoder), or a working signer
SignerStates == {"no_account", "raises", "signs"}

\* lines 288-303: what _sign_eip712 can meet under a configuration; with
\* eth_account and a valid key the encoder import or the signing may still
\* raise
SignerMet(c) ==
    IF ~c.account THEN {"no_account"}
    ELSE IF c.private_key = "good" THEN {"raises", "signs"}
    ELSE {"raises"}

\* SignEip712 that yields a signature whatever it met
SignEip712AlwaysSigns(met) == <<"hex">>

\* lines 286-303: _sign_eip712; <<>> is None
SignEip712(met) == IF met = "signs" THEN <<"hex">> ELSE <<>>

\* lines 235-239
WithVerifyResponse(s, v) ==
    [s EXCEPT !.diagnostics.verify_response = <<v.status_code>>]

\* lines 190-191 and 193-196
VerifySend ==
    /\ pc = "cpf_verify"
    /\ VerifyPath(result.create[1].status_code) # "skip"
    /\ Send("complete_payment_flow", "POST", "verify", PlainBody)
    /\ pc' = "cpf_verify_wait"
    /\ UNCHANGED <<frame, prog, signer, facilitator_url, finfo, memo,
                   create_res, verify_res, result, raised>>

\* lines 220-222
VerifySkip ==
    /\ pc = "cpf_verify"
    /\ VerifyPath(result.create[1].status_code) = "skip"
    /\ result' = [result EXCEPT !.verify = <<SkipVerify>>]
    /\ pc' = "cpf_settle"
    /\ UNCHANGED <<frame, prog, signer, facilitator_url, finfo, memo,
                   create_res, verify_res, log, raised>>

\* lines 191, 196-201, 213-222
VerifyRecv ==
    /\ pc = "cpf_verify_wait"
    /\ \E ans \in Answers : \E lst \in NestedAnswers(ans) :
        LET v == PaidApiReturn(ans)
            c == result.create[1]
        IN
        /\ PaidApiReceive(ans, lst)
        /\ IF VerifyPath(c.status_code) = "normal"
           THEN /\ result' = [result EXCEPT !.verify = <<v>>]
                /\ verify_res' = <<>>
                /\ pc' = "cpf_settle"
           ELSE IF NeedsSignature(v)
           THEN /\ verify_res' = <<v>>
                /\ result' = result
                /\ pc' = "vws"
           ELSE /\ result' = [result EXCEPT
                                 !.verify = <<WithCreateResponse(v, c)>>]
                /\ verify_res' = <<>>
                /\ pc' = "cpf_settle"
    /\ UNCHANGED <<frame, prog, signer, facilitator_url, memo, create_res,
                   raised>>

\* lines 311-317: sign (the signature may be None) and POST /verify
SignatureSend ==
    /\ pc = "vws"
    /\ \E met \in SignerMet(config) :
        /\ signer' = met
        /\ Send("verify_with_signature", "POST", "verify",
                SignedBody(SignEip712(met) # <<>>))
    /\ pc' = "vws_wait"
    /\ UNCHANGED <<frame, prog, facilitator_url, finfo, memo, create_res,
                   verify_res, result, raised>>

\* lines 318-324 and 203-212, 222
SignatureRecv ==
    /\ pc = "vws_wait"
    /\ \E ans \in Answers :
        LET sig == SignatureResult(ans, Len(log)) IN
        /\ log' = Answered(log, ans)
        /\ result' = [result EXCEPT !.verify =
               <<VerifyAfterSignature(verify_res[1], sig, result.create[1])>>]
    /\ verify_res' = <<>>
    /\ signer' = "unset"
    /\ pc' = "cpf_settle"
    /\ UNCHANGED <<frame, prog, facilitator_url, finfo, memo, create_res,
                   raised>>

\* lines 229 and 234
SettleSend ==
    /\ pc = "cpf_settle"
    /\ SettlePath(result.verify[1].status_code) # "skip"
    /\ Send("complete_payment_flow", "POST", "settle", PlainBody)
    /\ pc' = "cpf_settle_wait"
    /\ UNCHANGED <<frame, prog, signer, facilitator_url, finfo, memo,
                   create_res, verify_res, result, raised>>

\* lines 240-242
SettleSkip ==
    /\ pc = "cpf_settle"
    /\ SettlePath(result.verify[1].status_code) = "skip"
    /\ result' = [result EXCEPT !.settle = <<SkipSettle>>]
    /\ pc' = "done"
    /\ UNCHANGED <<frame, prog, signer, facilitator_url, finfo, memo,
                   create_res, verify_res, log, raised>>

\* SettleRecv that posts /settle once more after a transport failure
SettleRecvRetriesOnce ==
    /\ pc = "cpf_settle_wait"
    /\ \E ans \in Answers : \E lst \in NestedAnswers(ans) :
        LET s == PaidApiReturn(ans)
            v == result.verify[1]
        IN
        /\ PaidApiReceive(ans, lst)
        /\ IF ans.kind = "transport"
              /\ Cardinality({i \in 1..Len(log) : log[i].ep = "settle"}) = 1
           THEN /\ result' = result
                /\ pc' = "cpf_settle"
           ELSE /\ result' = [result EXCEPT !.settle =
                      IF SettlePath(v.status_code) = "last_resort"
                      THEN <<WithVerifyResponse(s, v)>>
                      ELSE <<s>>]
                /\ pc' = "done"
    /\ UNCHANGED <<frame, prog, signer, facilitator_url, memo, create_res,
                   verify_res, raised>>

\* lines 229, 234-239, 242, 246
SettleRecv ==
    /\ pc = "cpf_settle_wait"
    /\ \E ans \in Answers : \E lst \in NestedAnswers(ans) :
        LET s == PaidApiReturn(ans)
            v == result.verify[1]
        IN
        /\ PaidApiReceive(ans, lst)
        /\ result' = [result EXCEPT !.settle =
               IF SettlePath(v.status_code) = "last_resort"
               THEN <<WithVerifyResponse(s, v)>>
               ELSE <<s>>]
    /\ pc' = "done"
    /\ UNCHANGED <<frame, prog, signer, facilitator_url, memo, create_res,
                   verify_res, raised>>

----------------------------------------------------------------------------
(* x402_payment_full_flow (swarms/tools/x402_payment_tool.py); the "body"   *)
(* key of its stage dictionaries is held in the payload field.              *)

\* lines 103, 117, 124, 140: the stage recorded for an HTTP answer
FullFlowStage(ans, idx) ==
    [Blank EXCEPT !.status_code = ans.status,
                  !.payload = ParseJson(ans.body),
                  !.headers = TRUE,
                  !.call = idx]

\* lines 105 and 142: the stage recorded when the POST raised
FullFlowFailed(idx) ==
    [Blank EXCEPT !.error = "transport", !.request_body = TRUE, !.call = idx]

\* line 128: a raising verify POST is caught by the stage's handler
FullFlowVerifyFailed(idx) ==
    [Blank EXCEPT !.error = "transport", !.call = idx]

\* FullVerifyPath that falls back to verify after a 400 as well
FullVerifyPathOn400(create_status) ==
    IF create_status \in {400, 404} THEN "fallback"
    ELSE IF Is2xx(create_status) THEN "normal"
    ELSE "skip"

\* lines 109-126
FullVerifyPath(create_status) ==
    IF create_status = 404 THEN "fallback"
    ELSE IF Is2xx(create_status) THEN "normal"
    ELSE "skip"

\* lines 132-144
FullSettlePath(vstatus) ==
    IF Is2xx(vstatus) THEN "settle" ELSE "skip"

FullCreateSend ==
    /\ pc = "ff_create"
    /\ Send("x402_payment_full_flow", "POST", "create_payment", PlainBody)
    /\ pc' = "ff_create_wait"
    /\ UNCHANGED <<frame, prog, signer, facilitator_url, finfo, memo,
                   create_res, verify_res, result, raised>>

\* lines 97-105
FullCreateRecv ==
    /\ pc = "ff_create_wait"
    /\ \E ans \in Answers :
        /\ log' = Answered(log, ans)
        /\ result' = [result EXCEPT !.create =
               IF ans.kind = "http"
               THEN <<FullFlowStage(ans, Len(log))>>
               ELSE <<FullFlowFailed(Len(log))>>]
    /\ pc' = "ff_verify"
    /\ UNCHANGED <<frame, prog, signer, facilitator_url, finfo, memo,
                   create_res, verify_res, raised>>

\* lines 112 and 119
FullVerifySend ==
    /\ pc = "ff_verify"
    /\ FullVerifyPath(result.create[1].status_code) # "skip"
    /\ Send("x402_payment_full_flow", "POST", "verify", PlainBody)
    /\ pc' = "ff_verify_wait"
    /\ UNCHANGED <<frame, prog, signer, facilitator_url, finfo, memo,
                   create_res, verify_res, result, raised>>

\* lines 125-126
FullVerifySkip ==
    /\ pc = "ff_verify"
    /\ FullVerifyPath(result.create[1].status_code) = "skip"
    /\ result' = [result EXCEPT !.verify = <<SkipVerify>>]
    /\ pc' = "ff_settle"
    /\ UNCHANGED <<frame, prog, signer, facilitator_url, finfo, memo,
                   create_res, verify_res, log, raised>>

\* lines 112-117, 119-124, 127-128
FullVerifyRecv ==
    /\ pc = "ff_verify_wait"
    /\ \E ans \in Answers :
        /\ log' = Answered(log, ans)
        /\ result' = [result EXCEPT !.verify =
               IF ans.kind = "http"
               THEN <<FullFlowStage(ans, Len(log))>>
               ELSE <<FullFlowVerifyFailed(Len(log))>>]
    /\ pc' = "ff_settle"
    /\ UNCHANGED <<frame, prog, signer, facilitator_url, finfo, memo,
                   create_res, verify_res, raised>>

\* line 135
FullSettleSend ==
    /\ pc = "ff_settle"
    /\ FullSettlePath(result.verify[1].status_code) # "skip"
    /\ Send("x402_payment_full_flow", "POST", "settle", PlainBody)
    /\ pc' = "ff_settle_wait"
    /\ UNCHANGED <<frame, prog, signer, facilitator_url, finfo, memo,
                   create_res, verify_res, result, raised>>

\* lines 143-144
FullSettleSkip ==
    /\ pc = "ff_settle"
    /\ FullSettlePath(result.verify[1].status_code) = "skip"
    /\ result' = [result EXCEPT !.settle = <<SkipSettle>>]
    /\ pc' = "done"
    /\ UNCHANGED <<frame, prog, signer, facilitator_url, finfo, memo,
                   create_res, verify_res, log, raised>>

\* lines 134-142, 148
FullSettleRecv ==
    /\ pc = "ff_settle_wait"
    /\ \E ans \in Answers :
        /\ log' = Answered(log, ans)
        /\ result' = [result EXCEPT !.settle =
               IF ans.kind = "http"
               THEN <<FullFlowStage(ans, Len(log))>>
               ELSE <<FullFlowFailed(Len(log))>>]
    /\ pc' = "done"
    /\ UNCHANGED <<frame, prog, signer, facilitator_url, finfo, memo,
                   create_res, verify_res, raised>>

----------------------------------------------------------------------------
(* x402_payment_tool (swarms/tools/x402_payment_tool.py): one probe of      *)
(* /list, POST /create_payment and, after a 404, POST /verify.  Its         *)
(* facilitator_url is a local of the call.                                  *)

\* ToolUnusable for a probe that raised only
ToolUnusableOnlyUnreachable(ans) == ans.kind = "transport"

\* lines 42-47: the probe raised, or answered 0 or a 5xx status
ToolUnusable(ans) ==
    ans.kind = "transport" \/ ans.status = 0 \/ ans.status >= 500

\* lines 57 and 71: the dict returned for an HTTP answer
ToolResponse(ans, idx) ==
    [Blank EXCEPT !.status_code = ans.status,
                  !.payload = ParseJson(ans.body),
                  !.headers = TRUE,
                  !.call = idx]

\* lines 60 and 73: the dict returned when the POST raised
ToolFailed(idx) ==
    [Blank EXCEPT !.error = "transport", !.request_body = TRUE, !.call = idx]

\* the value x402_payment_tool returns: <<>> while it runs
ToolResult(r) == [returned |-> r]

\* ToolFallsBack for a 400 answer as well
ToolFallsBackOn4xx(status) == status \in {400, 404}

\* line 63: the create endpoint is taken as not implemented
ToolFallsBack(status) == status = 404

\* lines 26-38
ToolStart ==
    /\ pc = "tool_idle"
    /\ \E m \in BOOLEAN : memo' = m
    /\ facilitator_url' = "primary"
    /\ log' = <<>>
    /\ result' = ToolResult(<<>>)
    /\ wallet_address' = DeriveAddress(config)
    /\ network' = ConfiguredNetwork(config)
    /\ pc' = "tool_probe"
    /\ UNCHANGED <<config, gateway, suspended, prog, signer, finfo,
                   create_res, verify_res, raised>>

\* line 43
ToolProbeSend ==
    /\ pc = "tool_probe"
    /\ Send("x402_payment_tool", "GET", "list", NoBody)
    /\ pc' = "tool_probe_wait"
    /\ UNCHANGED <<frame, prog, signer, facilitator_url, finfo, memo,
                   create_res, verify_res, result, raised>>

\* lines 43-47
ToolProbeRecv ==
    /\ pc = "tool_probe_wait"
    /\ \E ans \in ListAnswers :
        /\ log' = Answered(log, ans)
        /\ facilitator_url' =
               IF ToolUnusable(ans) THEN "mock" ELSE facilitator_url
    /\ pc' = "tool_create"
    /\ UNCHANGED <<frame, prog, signer, finfo, memo, create_res, verify_res,
                   result, raised>>

\* lines 50-52
ToolCreateSend ==
    /\ pc = "tool_create"
    /\ Send("x402_payment_tool", "POST", "create_payment", PlainBody)
    /\ pc' = "tool_create_wait"
    /\ UNCHANGED <<frame, prog, signer, facilitator_url, finfo, memo,
                   create_res, verify_res, result, raised>>

\* lines 52-63 and 75
ToolCreateRecv ==
    /\ pc = "tool_create_wait"
    /\ \E ans \in Answers :
        /\ log' = Answered(log, ans)
        /\ IF ans.kind = "transport"
           THEN /\ result' = ToolResult(<<ToolFailed(Len(log))>>)
                /\ pc' = "tool_done"
           ELSE IF ToolFallsBack(ans.status)
           THEN /\ result' = result
                /\ pc' = "tool_verify"
           ELSE /\ result' = ToolResult(<<ToolResponse(ans, Len(log))>>)
                /\ pc' = "tool_done"
    /\ UNCHANGED <<frame, prog, signer, facilitator_url, finfo, memo,
                   create_res, verify_res, raised>>

\* lines 64-66
ToolVerifySend ==
    /\ pc = "tool_verify"
    /\ Send("x402_payment_tool", "POST", "verify", PlainBody)
    /\ pc' = "tool_verify_wait"
    /\ UNCHANGED <<frame, prog, signer, facilitator_url, finfo, memo,
                   create_res, verify_res, result, raised>>

\* lines 66-73
ToolVerifyRecv ==
    /\ pc = "tool_verify_wait"
    /\ \E ans \in Answers :
        /\ log' = Answered(log, ans)
        /\ result' = ToolResult(IF ans.kind = "transport"
                                THEN <<ToolFailed(Len(log))>>
                                ELSE <<ToolResponse(ans, Len(log))>>)
    /\ pc' = "tool_done"
    /\ UNCHANGED <<frame, prog, signer, facilitator_url, finfo, memo,
                   create_res, verify_res, raised>>

\* lines 60, 71, 73, 75: the dict goes to the caller
ToolReturn ==
    /\ pc = "tool_done"
    /\ pc' = "tool_idle"
    /\ result' = EmptyResult
    /\ log' = <<>>
    /\ memo' = FALSE
    /\ UNCHANGED <<frame, prog, signer, facilitator_url, finfo, create_res,
                   verify_res, raised>>

----------------------------------------------------------------------------

Next ==
    \/ CtorProbeSend \/ CtorProbeRecv \/ CtorRefreshSend \/ CtorRefreshRecv
    \/ StartFlow \/ Return
    \/ CreateSend \/ CreateRecv
    \/ SessionVerifySend \/ SessionVerifyRecv
    \/ SessionListSend \/ SessionListRecv
    \/ VerifySend \/ VerifySkip \/ VerifyRecv
    \/ SignatureSend \/ SignatureRecv
    \/ SettleSend \/ SettleSkip \/ SettleRecv
    \/ FullCreateSend \/ FullCreateRecv
    \/ FullVerifySend \/ FullVerifySkip \/ FullVerifyRecv
    \/ FullSettleSend \/ FullSettleSkip \/ FullSettleRecv
    \/ ToolStart \/ ToolProbeSend \/ ToolProbeRecv
    \/ ToolCreateSend \/ ToolCreateRecv
    \/ ToolVerifySend \/ ToolVerifyRecv \/ ToolReturn

Spec == Init /\ [][Next]_vars

----------------------------------------------------------------------------
(* The same programs under every configuration.  To keep the runs few the   *)
(* facilitator is held to a handful of answers: it answers 200, 400 (404    *)
(* to the module-level functions) or not at all, always with a JSON object. *)

InitConfig ==
    /\ prog \in {"agent", "full", "tool"}
    /\ pc = CASE prog = "agent" -> "ctor"
            [] prog = "full"  -> "idle"
            [] prog = "tool"  -> "tool_idle"
    /\ facilitator_url = "primary"
    /\ finfo = <<>>
    /\ memo = FALSE
    /\ create_res = <<>>
    /\ verify_res = <<>>
    /\ result = EmptyResult
    /\ log = <<>>
    /\ raised = FALSE
    /\ signer = "unset"
    /\ config \in Configs
    /\ wallet_address = IF prog = "agent" THEN InitWallet(config) ELSE "none"
    /\ network = IF prog = "agent" THEN ConfiguredNetwork(config) ELSE "none"
    /\ gateway = NoGateway
    /\ suspended = <<>>

\* the statuses the facilitator answers with in these runs (0: no answer)
FewCodes == IF prog = "agent" THEN {0, 200, 400} ELSE {0, 200, 404}

\* the dictionaries held by the running call
HeldDicts ==
    UNION {{result[k][i] : i \in 1..Len(result[k])} : k \in DOMAIN result}
        \cup {create_res[i] : i \in 1..Len(create_res)}
        \cup {verify_res[i] : i \in 1..Len(verify_res)}

FewAnswers ==
    /\ \A i \in 1..Len(log) :
          log[i].code \in (IF log[i].ep = "list" THEN {0, 200} ELSE FewCodes)
    /\ \A r \in HeldDicts : r.payload \notin {"list", "text_dict"}

NextConfig ==
    \/ CtorProbeSend \/ CtorRefreshSend \/ StartFlow \/ Return \/ CreateSend
    \/ SessionVerifySend \/ SessionListSend \/ VerifySend \/ VerifySkip
    \/ SignatureSend \/ SettleSend \/ SettleSkip \/ FullCreateSend
    \/ FullVerifySend \/ FullVerifySkip \/ FullSettleSend \/ FullSettleSkip
    \/ ToolStart \/ ToolProbeSend \/ ToolCreateSend \/ ToolVerifySend
    \/ ToolReturn
    \/ (CtorProbeRecv /\ FewAnswers')
    \/ (CtorRefreshRecv /\ FewAnswers')
    \/ (CreateRecv /\ FewAnswers')
    \/ (SessionVerifyRecv /\ FewAnswers')
    \/ (SessionListRecv /\ FewAnswers')
    \/ (VerifyRecv /\ FewAnswers')
    \/ (SignatureRecv /\ FewAnswers')
    \/ (SettleRecv /\ FewAnswers')
    \/ (FullCreateRecv /\ FewAnswers')
    \/ (FullVerifyRecv /\ FewAnswers')
    \/ (FullSettleRecv /\ FewAnswers')
    \/ (ToolProbeRecv /\ FewAnswers')
    \/ (ToolCreateRecv /\ FewAnswers')
    \/ (ToolVerifyRecv /\ FewAnswers')

SpecConfig == InitConfig /\ [][NextConfig]_vars

----------------------------------------------------------------------------
(* complete_payment_flow on a constructed agent, every step of a running    *)
(* flow taken in the end: the code is sequential, and every HTTP call       *)
(* returns or times out (httpx timeouts, a timeout being a transport        *)
(* failure).                                                                *)

\* the answer of a facilitator that is up
ListOk == [kind |-> "http", status |-> 200, body |-> "json_object"]

\* an agent whose constructor found the facilitator up
InitLive ==
    /\ prog = "agent"
    /\ pc = "idle"
    /\ facilitator_url = "primary"
    /\ finfo = <<DiscoverInfo(ListOk)>>
    /\ memo = FALSE
    /\ create_res = <<>>
    /\ verify_res = <<>>
    /\ result = EmptyResult
    /\ log = <<>>
    /\ raised = FALSE
    /\ signer = "unset"
    /\ config \in {Unconfigured, Equipped}
    /\ wallet_address = InitWallet(config)
    /\ network = ConfiguredNetwork(config)
    /\ gateway = NoGateway
    /\ suspended = <<>>

\* the steps of a running complete_payment_flow
FlowStep ==
    \/ CreateSend \/ CreateRecv
    \/ SessionVerifySend \/ SessionVerifyRecv
    \/ SessionListSend \/ SessionListRecv
    \/ VerifySend \/ VerifySkip \/ VerifyRecv
    \/ SignatureSend \/ SignatureRecv
    \/ SettleSend \/ SettleSkip \/ SettleRecv

NextLive == StartFlow \/ FlowStep \/ Return

SpecLive == InitLive /\ [][NextLive]_vars /\ WF_vars(FlowStep)

----------------------------------------------------------------------------
(* Two complete_payment_flow calls running concurrently on one instance.    *)
(* The instance (facilitator_url, _facilitator_info, wallet_address,        *)
(* network) is shared; each call has its own locals, request log and        *)
(* result.  The call that is about to take a step has its locals in the     *)
(* variables, the other call's are kept in suspended; a switch may happen   *)
(* between any two steps.  The facilitator answers as in the narrowed runs. *)

\* the locals of a call that has not started
IdleFlow ==
    [pc |-> "idle", memo |-> FALSE, create_res |-> <<>>, verify_res |-> <<>>,
     result |-> EmptyResult, log |-> <<>>, signer |-> "unset",
     raised |-> FALSE]

\* the locals of the call in the variables
RunningFlow ==
    [pc |-> pc, memo |-> memo, create_res |-> create_res,
     verify_res |-> verify_res, result |-> result, log |-> log,
     signer |-> signer, raised |-> raised]

\* one instance, constructed, and two callers
InitShared ==
    /\ prog = "agent"
    /\ pc = "idle"
    /\ facilitator_url \in {"primary", "mock"}
    /\ finfo = <<DiscoverInfo(ListOk)>>
    /\ memo = FALSE
    /\ create_res = <<>>
    /\ verify_res = <<>>
    /\ result = EmptyResult
    /\ log = <<>>
    /\ raised = FALSE
    /\ signer = "unset"
    /\ config = Unconfigured
    /\ wallet_address = InitWallet(config)
    /\ network = ConfiguredNetwork(config)
    /\ gateway = NoGateway
    /\ suspended = <<IdleFlow>>

\* the scheduler gives the other call the next step
Switch ==
    /\ suspended # <<>>
    /\ pc' = suspended[1].pc
    /\ memo' = suspended[1].memo
    /\ create_res' = suspended[1].create_res
    /\ verify_res' = suspended[1].verify_res
    /\ result' = suspended[1].result
    /\ log' = suspended[1].log
    /\ signer' = suspended[1].signer
    /\ raised' = suspended[1].raised
    /\ suspended' = <<RunningFlow>>
    /\ UNCHANGED <<prog, facilitator_url, finfo, config, wallet_address,
                   network, gateway>>

NextShared ==
    \/ Switch
    \/ StartFlow \/ Return
    \/ CreateSend \/ SessionVerifySend \/ SessionListSend
    \/ VerifySend \/ VerifySkip \/ SignatureSend
    \/ SettleSend \/ SettleSkip
    \/ (CreateRecv /\ FewAnswers')
    \/ (SessionVerifyRecv /\ FewAnswers')
    \/ (SessionListRecv /\ FewAnswers')
    \/ (VerifyRecv /\ FewAnswers')
    \/ (SignatureRecv /\ FewAnswers')
    \/ (SettleRecv /\ FewAnswers')

SpecShared == InitShared /\ [][NextShared]_vars

----------------------------------------------------------------------------
(* The gateway middleware of require_payment (x402/fastapi/middleware.py).  *)
(* Strings are sequences of characters.  gateway holds the pattern the      *)
(* middleware was built with, whether facilitator_config has a url, the     *)
(* request in hand (its path and its X-MOCK-PAYED header, <<>> when the     *)
(* header is absent), whether call_next was invoked and the response.       *)

GatewayPatterns ==
    { <<"/", "a", "/", "*">>, <<"/", "*">>, <<"/", "a">>, <<"/", "a", "*">> }

GatewayPaths ==
    { <<"/">>, <<"/", "a">>, <<"/", "a", "/">>, <<"/", "a", "/", "b">>,
      <<"/", "a", "b">>, <<"/", "b">>, <<"/", "a", "*">>,
      <<"/", "a", "/", "*">> }

\* values of the X-MOCK-PAYED header
HeaderValues ==
    { <<"1">>, <<"0">>, <<>>, <<"1", "1">>,
      <<"t", "r", "u", "e">>, <<"T", "R", "U", "E">>, <<"T", "r", "u", "e">>,
      <<"y", "e", "s">>, <<"Y", "E", "S">>, <<"y", "e">>,
      <<"f", "a", "l", "s", "e">> }

\* what the handler behind the middleware answers with
HandlerStatuses == {200, 500}

EndsWith(s, suffix) ==
    /\ Len(s) >= Len(suffix)
    /\ SubSeq(s, Len(s) - Len(suffix) + 1, Len(s)) = suffix

StartsWith(s, prefix) ==
    /\ Len(s) >= Len(prefix)
    /\ SubSeq(s, 1, Len(prefix)) = prefix

\* Match with the prefix cut before the slash: pattern[:-2]
MatchWithoutSlash(request_path, pattern) ==
    IF EndsWith(pattern, <<"/", "*">>)
    THEN StartsWith(request_path, SubSeq(pattern, 1, Len(pattern) - 2))
    ELSE request_path = pattern

\* lines 13-16: _match
Match(request_path, pattern) ==
    IF EndsWith(pattern, <<"/", "*">>)
    THEN StartsWith(request_path, SubSeq(pattern, 1, Len(pattern) - 1))
    ELSE request_path = pattern

LowerChar(c) ==
    CASE c = "T" -> "t" [] c = "R" -> "r" [] c = "U" -> "u" [] c = "E" -> "e"
      [] c = "Y" -> "y" [] c = "S" -> "s" [] OTHER -> c

\* str.lower()
Lower(s) == [i \in 1..Len(s) |-> LowerChar(s[i])]

\* Paid that compares the header as it came
PaidCaseSensitive(header) ==
    LET paid_header == IF header = <<>> THEN <<"f", "a", "l", "s", "e">>
                       ELSE header[1]
    IN paid_header \in { <<"1">>, <<"t", "r", "u", "e">>, <<"y", "e", "s">> }

\* lines 20-21: headers.get("x-mock-payed", "false").lower() in (...)
Paid(header) ==
    LET paid_header == Lower(IF header = <<>> THEN <<"f", "a", "l", "s", "e">>
                             ELSE header[1])
    IN paid_header \in { <<"1">>, <<"t", "r", "u", "e">>, <<"y", "e", "s">> }

\* lines 23-29: the JSONResponse of the challenge
PaymentRequired(has_url) ==
    [status_code |-> 402,
     content |-> [error |-> "payment_required",
                  required_price |-> "str(price)",
                  pay_to |-> "pay_to_address",
                  network |-> "network",
                  facilitator |-> IF has_url THEN "url" ELSE "null"]]

\* the response of the downstream handler
HandlerResponse(status) ==
    [status_code |-> status, content |-> "handler"]

\* what the middleware never touches
payment_vars == <<prog, facilitator_url, finfo, memo, create_res, verify_res,
                 result, log, raised, signer, config, wallet_address,
                 network, suspended>>

\* line 6: require_payment(path, price, pay_to_address, network,
\* facilitator_config) has returned the middleware
InitGateway ==
    /\ prog = "gateway"
    /\ pc = "gw_idle"
    /\ facilitator_url = "primary"
    /\ finfo = <<>>
    /\ memo = FALSE
    /\ create_res = <<>>
    /\ verify_res = <<>>
    /\ result = EmptyResult
    /\ log = <<>>
    /\ raised = FALSE
    /\ signer = "unset"
    /\ config = Unconfigured
    /\ wallet_address = "none"
    /\ network = "none"
    /\ \E pattern \in GatewayPatterns : \E has_url \in BOOLEAN :
          gateway = [NoGateway EXCEPT !.pattern = pattern,
                                      !.has_url = has_url]
    /\ suspended = <<>>

\* a request reaches the middleware
GatewayRequest ==
    /\ pc = "gw_idle"
    /\ \E path \in GatewayPaths :
       \E header \in {<<>>} \cup {<<value>> : value \in HeaderValues} :
          gateway' = [gateway EXCEPT !.path = path, !.header = header,
                                     !.forwarded = FALSE, !.response = <<>>]
    /\ pc' = "gw_request"
    /\ UNCHANGED payment_vars

\* lines 19-29: the request matches and is not paid for
GatewayChallenge ==
    /\ pc = "gw_request"
    /\ Match(gateway.path, gateway.pattern)
    /\ ~Paid(gateway.header)
    /\ gateway' = [gateway EXCEPT
                      !.response = <<PaymentRequired(gateway.has_url)>>]
    /\ pc' = "gw_responded"
    /\ UNCHANGED payment_vars

\* lines 22 and 30: call_next(request)
GatewayForward ==
    /\ pc = "gw_request"
    /\ ~Match(gateway.path, gateway.pattern) \/ Paid(gateway.header)
    /\ gateway' = [gateway EXCEPT !.forwarded = TRUE]
    /\ pc' = "gw_handler"
    /\ UNCHANGED payment_vars

\* lines 22 and 30: call_next returned, its response is the middleware's
GatewayHandlerReturn ==
    /\ pc = "gw_handler"
    /\ \E status \in HandlerStatuses :
          gateway' = [gateway EXCEPT !.response = <<HandlerResponse(status)>>]
    /\ pc' = "gw_responded"
    /\ UNCHANGED payment_vars

\* the response has gone to the client
GatewayDone ==
    /\ pc = "gw_responded"
    /\ gateway' = [gateway EXCEPT !.path = <<>>, !.header = <<>>,
                                  !.forwarded = FALSE, !.response = <<>>]
    /\ pc' = "gw_idle"
    /\ UNCHANGED payment_vars

NextGateway ==
    \/ GatewayRequest
    \/ GatewayChallenge
    \/ GatewayForward
    \/ GatewayHandlerReturn
    \/ GatewayDone

SpecGateway == InitGateway /\ [][NextGateway]_vars

----------------------------------------------------------------------------
(* Vocabulary of the properties.                                            *)

Stages == {"create", "verify", "settle"}

Done == pc = "done"

AgentDone == Done /\ prog = "agent"

Sent(ep) == {i \in 1..Len(log) : log[i].ep = ep}

SentFrom(site) == {i \in 1..Len(log) : log[i].site = site}

\* request i got an HTTP answer of status code
AnsweredWith(i, codes) ==
    i \in 1..Len(log) /\ log[i].state = "answered" /\ log[i].code \in codes

TwoHundreds == {s \in HttpStatuses : Is2xx(s)}

\* stage r reports the outcome of a POST /verify issued in this flow
FromVerifyCall(r) ==
    /\ r.call \in Sent("verify")
    /\ log[r.call].method = "POST"
    /\ log[r.call].state # "pending"
    /\ r.status_code = log[r.call].code
    /\ r.error # SkipVerifyMsg

\* POST /create_payment got no 2xx, 400 or 404 answer
CreateFailedOutright ==
    /\ 1 \in Sent("create_payment")
    /\ \/ log[1].state = "failed"
       \/ AnsweredWith(1, HttpStatuses \ (TwoHundreds \cup {400, 404}))

\* the unsigned POST /verify issued by complete_payment_flow itself
FlowVerify == SentFrom("complete_payment_flow") \cap Sent("verify")

SignedVerify == SentFrom("verify_with_signature")

----------------------------------------------------------------------------
(* C1: whatever the facilitator answers, complete_payment_flow and          *)
(* x402_payment_full_flow return without raising, and the returned result   *)
(* holds the three stage keys create, verify and settle, each a result      *)
(* object with a status_code.                                               *)
C1_FlowResultComplete ==
    /\ ~raised
    /\ Done => /\ DOMAIN result = Stages
               /\ \A k \in Stages :
                    Len(result[k]) = 1 /\ result[k][1].status_code \in Nat

\* a flow whose create stage raised inside create_payment_session has returned
C1_Witness ==
    /\ AgentDone
    /\ Len(result.create) = 1
    /\ result.create[1].error = "exception"
    /\ Len(result.settle) = 1

(* C2: the requests of one complete_payment_flow are strictly sequential:   *)
(* a request is issued only when every earlier one has its outcome, a       *)
(* POST /verify only after POST /create_payment, and a POST /settle only    *)
(* after a POST /verify and never before one.                               *)
C2_StrictlySequential ==
    prog = "agent" =>
        \A i \in 1..Len(log) :
            /\ i < Len(log) => log[i].state # "pending"
            /\ log[i].ep = "verify" =>
                   \E j \in Sent("create_payment") : j < i
            /\ log[i].ep = "settle" =>
                   /\ \E j \in Sent("verify") : j < i
                   /\ \A j \in Sent("verify") : j < i

\* a settle request is in flight after a signed verify
C2_Witness ==
    /\ prog = "agent"
    /\ pc = "cpf_settle_wait"
    /\ log[Len(log)].ep = "settle"
    /\ log[Len(log)].state = "pending"
    /\ SignedVerify # {}

(* C3: a 2xx create stage in the returned result implies that the verify    *)
(* stage is the outcome of a POST /verify issued in that flow, never the    *)
(* skip sentinel.                                                           *)
C3_VerifyAttemptedAfterCreate ==
    Done =>
        (Is2xx(result.create[1].status_code) => FromVerifyCall(result.verify[1]))

\* create succeeded and the verify call itself failed at transport
C3_Witness ==
    /\ Done
    /\ Is2xx(result.create[1].status_code)
    /\ result.verify[1].error = "transport"
    /\ result.verify[1].status_code = 0

(* C4: when POST /create_payment answers 404 a POST /verify with the same   *)
(* body follows; if that verify answers 2xx the create stage is labelled    *)
(* "verified-as-create"; and with 200 for every verify and for settle the   *)
(* flow ends with settle.status_code = 200.                                 *)
C4_NotFoundFallsBackToVerify ==
    (AgentDone /\ AnsweredWith(1, {404})) =>
        /\ 2 \in Sent("verify")
        /\ log[2].method = "POST"
        /\ log[2].body = log[1].body
        /\ ( AnsweredWith(2, TwoHundreds) =>
                result.create[1].payload = "verified-as-create" )
        /\ ( ( /\ \A i \in Sent("verify") : AnsweredWith(i, {200})
               /\ \A i \in Sent("settle") : AnsweredWith(i, {200}) )
             => result.settle[1].status_code = 200 )

(* C5: when POST /create_payment answers 404 the verify stage of the result *)
(* holds the outcome of a POST /verify, whatever that outcome is, and never *)
(* the skip sentinel.                                                       *)
C5_NotFoundAlwaysReachesVerify ==
    (AgentDone /\ AnsweredWith(1, {404})) => FromVerifyCall(result.verify[1])

(* C6: when POST /create_payment answers 400 the create stage keeps status  *)
(* 400 with request_body, response_text, diagnostics.note and the result of *)
(* a GET /list made in that flow, and the verify stage is the outcome of a  *)
(* POST /verify.                                                            *)
C6_BadRequestDiagnostics ==
    (AgentDone /\ AnsweredWith(1, {400})) =>
        /\ result.create[1].status_code = 400
        /\ result.create[1].request_body
        /\ result.create[1].response_text
        /\ result.create[1].diagnostics.note
        /\ \E i \in Sent("list") :
               /\ log[i].method = "GET"
               /\ log[i].state # "pending"
               /\ result.create[1].diagnostics.facilitator_list = <<log[i].code>>
        /\ FromVerifyCall(result.verify[1])

\* create answered 400, the probe of that flow failed at transport
C6_Witness ==
    /\ AgentDone
    /\ AnsweredWith(1, {400})
    /\ result.create[1].diagnostics.facilitator_list = <<0>>
    /\ result.verify[1].call \in FlowVerify

(* C7: when POST /create_payment fails at transport or answers a non-2xx    *)
(* status other than 400 and 404, no POST /verify and no POST /settle is    *)
(* issued, the verify stage is the "create failed; skipping verify"         *)
(* sentinel and the settle stage a status_code 0 skip sentinel.             *)
C7_CreateFailureSkipsTheRest ==
    (AgentDone /\ CreateFailedOutright) =>
        /\ Sent("verify") = {}
        /\ Sent("settle") = {}
        /\ result.verify[1] = SkipVerify
        /\ result.settle[1] = SkipSettle

\* POST /create_payment failed at transport and the flow has returned
C7_Witness ==
    /\ AgentDone
    /\ 1 \in Sent("create_payment")
    /\ log[1].state = "failed"
    /\ result.create[1].error = "transport"

(* C8: a verify stage whose status_code is neither 2xx nor 400 nor 404      *)
(* means no POST /settle was issued and the settle stage is exactly the     *)
(* "verify failed; skipping settle" sentinel.                               *)
C8_FailedVerifySkipsSettle ==
    Done =>
        ( ( /\ ~Is2xx(result.verify[1].status_code)
            /\ result.verify[1].status_code \notin {400, 404} )
          => ( /\ Sent("settle") = {}
               /\ result.settle[1] = SkipSettle ) )

\* a POST /verify answered 500 and the flow has returned
C8_Witness ==
    /\ AgentDone
    /\ result.verify[1].status_code = 500
    /\ result.verify[1].call \in Sent("verify")

(* C9 as claimed: whenever the unsigned POST /verify feeding the verify     *)
(* stage answers 400 or 404, the signed verify fallback is performed        *)
(* exactly once, for every create outcome.                                  *)
C9_SignatureOnEveryPath ==
    AgentDone =>
        \A i \in FlowVerify :
            AnsweredWith(i, {400, 404}) => Cardinality(SignedVerify) = 1

(* C9 amended: when that verify answers 400 or 404, the signed verify       *)
(* fallback is performed exactly once if the create stage has status 400 or *)
(* 404, and not at all if the create stage is 2xx.                          *)
C9_SignatureOnFallbackPath ==
    AgentDone =>
        \A i \in FlowVerify :
            AnsweredWith(i, {400, 404}) =>
                Cardinality(SignedVerify) =
                    IF result.create[1].status_code \in {400, 404}
                    THEN 1 ELSE 0

\* a 404 to the flow's unsigned verify was followed by one signed verify
C9_Witness ==
    /\ AgentDone
    /\ \E i \in FlowVerify : AnsweredWith(i, {404})
    /\ Cardinality(SignedVerify) = 1

(* C10: when the signed verify is attempted and answers 2xx, the verify     *)
(* stage is exactly its result; otherwise the verify stage keeps the        *)
(* unsigned verify's status_code and carries create_response and            *)
(* signature_attempt under diagnostics.                                     *)
C10_SignatureOutcome ==
    AgentDone =>
        \A k \in SignedVerify :
            LET v == result.verify[1] IN
            IF AnsweredWith(k, TwoHundreds)
            THEN /\ v.call = k
                 /\ v.status_code = log[k].code
                 /\ v.headers /\ v.request_body /\ v.payload # "none"
                 /\ v.error = "none"
                 /\ v.diagnostics = NoDiagnostics
            ELSE \E i \in FlowVerify :
                 /\ v.call = i
                 /\ v.status_code = log[i].code
                 /\ v.diagnostics.create_response =
                        <<result.create[1].status_code>>
                 /\ v.diagnostics.signature_attempt = <<log[k].code>>

\* the signed verify answered 2xx after the unsigned one had answered 404
C10_Witness ==
    /\ AgentDone
    /\ \E k \in SignedVerify : AnsweredWith(k, TwoHundreds)
    /\ \E i \in FlowVerify : AnsweredWith(i, {404})
    /\ result.verify[1].call \in SignedVerify

\* the flow's unsigned verify failed at transport or answered outside
\* 2xx, 400 and 404
VerifyFailedOutright(i) ==
    \/ log[i].state = "failed"
    \/ AnsweredWith(i, HttpStatuses \ (TwoHundreds \cup {400, 404}))

(* C11 as claimed: when the unsigned POST /verify of the flow fails at      *)
(* transport or answers a non-2xx status other than 400 and 404, no signed  *)
(* verify and no POST /settle is issued and the settle stage is the         *)
(* "verify failed; skipping settle" sentinel.                               *)
C11_VerifyFailureIsFinal ==
    AgentDone =>
        \A i \in FlowVerify :
            VerifyFailedOutright(i) =>
                /\ SignedVerify = {}
                /\ Sent("settle") = {}
                /\ result.settle[1] = SkipSettle

(* C11 amended: after such a failure of the unsigned verify, a flow whose   *)
(* create stage is 2xx issues no signed verify and no POST /settle and its  *)
(* settle stage is the skip sentinel; a flow whose create stage is 400 or   *)
(* 404 issues one signed verify, issues POST /settle only if that signed    *)
(* verify answers 2xx, and otherwise has the skip sentinel as settle stage. *)
C11_VerifyFailureFinalUnlessSigned ==
    AgentDone =>
        \A i \in FlowVerify :
            VerifyFailedOutright(i) =>
                IF Is2xx(result.create[1].status_code)
                THEN /\ SignedVerify = {}
                     /\ Sent("settle") = {}
                     /\ result.settle[1] = SkipSettle
                ELSE /\ Cardinality(SignedVerify) = 1
                     /\ \A k \in SignedVerify :
                          IF AnsweredWith(k, TwoHundreds)
                          THEN Sent("settle") # {}
                          ELSE /\ Sent("settle") = {}
                               /\ result.settle[1] = SkipSettle

\* create succeeded, the unsigned verify answered 500, the flow returned
C11_Witness ==
    /\ AgentDone
    /\ Is2xx(result.create[1].status_code)
    /\ \E i \in FlowVerify : AnsweredWith(i, {500})
    /\ result.settle[1] = SkipSettle

(* C12 as claimed: POST /settle is issued only in flows whose verify stage  *)
(* ended with 2xx; whenever the verify stage is not 2xx, 400 and 404        *)
(* included, the settle stage is the skip marker and not the outcome of a   *)
(* settle call.                                                             *)
C12_FailedVerifyIsTerminal ==
    AgentDone =>
        /\ ( Sent("settle") # {} => Is2xx(result.verify[1].status_code) )
        /\ ( ~Is2xx(result.verify[1].status_code) =>
               (result.settle[1] = SkipSettle /\ result.settle[1].call = 0) )

(* C12 amended: POST /settle is issued exactly in the flows whose verify    *)
(* stage ended with 2xx or, as a last resort, with 400 or 404; whenever the *)
(* verify stage is neither 2xx nor 400 nor 404 the settle stage is the skip *)
(* marker and not the outcome of a settle call, and after a 400 or 404      *)
(* verify stage the settle stage is the outcome of the last-resort settle   *)
(* call and carries the verify status under diagnostics.verify_response.    *)
C12_SettleOnlyAfterVerifyOrLastResort ==
    AgentDone =>
        LET v == result.verify[1]
            s == result.settle[1]
        IN
        /\ Sent("settle") # {} <=>
               (Is2xx(v.status_code) \/ v.status_code \in {400, 404})
        /\ Sent("settle") = {} => (s = SkipSettle /\ s.call = 0)
        /\ v.status_code \in {400, 404} =>
               /\ s.call \in Sent("settle")
               /\ s.diagnostics.verify_response = <<v.status_code>>

\* verify stayed 404 after a failed signed verify and settle was still tried
C12_Witness ==
    /\ AgentDone
    /\ result.verify[1].status_code = 404
    /\ result.verify[1].diagnostics.signature_attempt # <<>>
    /\ result.settle[1].call \in Sent("settle")

(* C13: whenever the verify stage ends with 2xx, POST /settle is issued     *)
(* exactly once and the settle stage reports that call's own outcome: the   *)
(* literal HTTP status, or status_code 0 with an error when the call failed *)
(* at transport; with 200 answers to create, verify and settle the settle   *)
(* stage has status_code 200.                                               *)
C13_SettleFollowsVerifiedFlow ==
    AgentDone =>
        /\ Is2xx(result.verify[1].status_code) =>
             /\ Cardinality(Sent("settle")) = 1
             /\ \A k \in Sent("settle") :
                  LET s == result.settle[1] IN
                  /\ s.call = k
                  /\ log[k].state # "pending"
                  /\ s.status_code = log[k].code
                  /\ IF log[k].state = "failed"
                     THEN s.status_code = 0 /\ s.error = "transport"
                     ELSE s.error = "none" /\ s.headers
        /\ ( /\ AnsweredWith(1, {200})
             /\ log[1].ep = "create_payment"
             /\ \A i \in 1..Len(log) : AnsweredWith(i, {200}) )
           => result.settle[1].status_code = 200

\* verified by signature, then POST /settle failed at transport
C13_Witness ==
    /\ AgentDone
    /\ result.verify[1].call \in SignedVerify
    /\ Is2xx(result.verify[1].status_code)
    /\ \E k \in Sent("settle") : log[k].state = "failed"
    /\ result.settle[1].status_code = 0

\* two requests of the flow with the same endpoint and the same body
SameRequest(i, j) ==
    /\ log[i].ep = log[j].ep
    /\ log[i].method = log[j].method
    /\ log[i].body = log[j].body

SessionVerify == SentFrom("create_payment_session") \cap Sent("verify")

\* the log holds the requests of a complete_payment_flow call
InAgentFlow ==
    prog = "agent" /\ log # <<>> /\ log[1].ep = "create_payment"

(* C14 as claimed: within one complete_payment_flow POST /create_payment,   *)
(* the unsigned POST /verify, the signed POST /verify and POST /settle are  *)
(* each issued at most once, and a call that failed at transport is never   *)
(* issued again.                                                            *)
C14_NoRequestRepeated ==
    InAgentFlow =>
        /\ Cardinality(Sent("create_payment")) <= 1
        /\ Cardinality(Sent("verify") \ SignedVerify) <= 1
        /\ Cardinality(SignedVerify) <= 1
        /\ Cardinality(Sent("settle")) <= 1
        /\ \A i, j \in 1..Len(log) :
              (i < j /\ log[i].state = "failed") => ~SameRequest(i, j)

(* C14 amended: POST /create_payment, the signed POST /verify and           *)
(* POST /settle are each issued at most once; the unsigned POST /verify is  *)
(* issued at most twice, at most once by create_payment_session, and then   *)
(* only after create answered 400 or 404, and at most once by               *)
(* complete_payment_flow; the only call issued again after it failed at     *)
(* transport is create_payment_session's verify after a 400 create, which   *)
(* complete_payment_flow repeats.                                           *)
C14_RepeatedOnlyByFallback ==
    InAgentFlow =>
        /\ Cardinality(Sent("create_payment")) <= 1
        /\ Cardinality(SessionVerify) <= 1
        /\ Cardinality(FlowVerify) <= 1
        /\ Sent("verify") = SessionVerify \cup FlowVerify \cup SignedVerify
        /\ SessionVerify # {} => AnsweredWith(1, {400, 404})
        /\ Cardinality(SignedVerify) <= 1
        /\ Cardinality(Sent("settle")) <= 1
        /\ \A i, j \in 1..Len(log) :
              (i < j /\ log[i].state = "failed" /\ SameRequest(i, j)) =>
                  /\ AnsweredWith(1, {400})
                  /\ i \in SessionVerify
                  /\ j \in FlowVerify

\* both unsigned verifies were issued and the first failed at transport
C14_Witness ==
    /\ InAgentFlow
    /\ \E i \in SessionVerify : log[i].state = "failed"
    /\ FlowVerify # {}
    /\ Cardinality(Sent("verify") \ SignedVerify) = 2

\* request i is a GET /list probe whose outcome the URL rule calls unusable
ProbeUnusable(i) ==
    log[i].state # "pending" /\ (log[i].code = 0 \/ log[i].code >= 500)

\* the log starts with the /list probe made by site, and it has its outcome
ProbedBy(site) ==
    /\ log # <<>>
    /\ log[1].site = site
    /\ log[1].ep = "list"
    /\ log[1].state # "pending"

(* C15: once the constructor's first GET /list probe has its outcome, the   *)
(* agent's base URL is the mock URL if and only if that probe yielded       *)
(* status_code 0 or a status >= 500, and the primary URL otherwise;         *)
(* x402_payment_tool applies the same rule to the URL of its create and     *)
(* verify calls, so after a 500 on /list its POST /create_payment goes to   *)
(* the mock URL.                                                            *)
C15_FallbackUrlRule ==
    /\ (prog = "agent" /\ ProbedBy("__init__")) =>
          /\ log[1].url = "primary"
          /\ facilitator_url = IF ProbeUnusable(1) THEN "mock" ELSE "primary"
          /\ pc = "idle" =>
                (facilitator_url = "mock" <=> ProbeUnusable(1))
    /\ (prog = "tool" /\ ProbedBy("x402_payment_tool")) =>
          /\ log[1].url = "primary"
          /\ \A i \in 2..Len(log) :
                /\ log[i].method = "POST"
                /\ log[i].url = IF ProbeUnusable(1) THEN "mock" ELSE "primary"

\* the tool's probe answered 500 and its create_payment went to the mock URL
C15_Witness ==
    /\ prog = "tool"
    /\ ProbedBy("x402_payment_tool")
    /\ AnsweredWith(1, {500})
    /\ \E i \in Sent("create_payment") : log[i].url = "mock"

ConstructorSteps == {"ctor", "ctor_probe", "ctor_refresh", "ctor_refresh_wait"}

(* C16: the base URL of an agent is substituted only during construction    *)
(* and at most once: construction is never re-entered, no step after it     *)
(* changes facilitator_url, the mock URL once substituted is never          *)
(* replaced, and every request issued from then on is addressed to it.      *)
C16_SubstitutionOnlyInConstructor ==
    [][ prog = "agent" =>
          /\ pc \notin ConstructorSteps =>
                /\ facilitator_url' = facilitator_url
                /\ pc' \notin ConstructorSteps
          /\ facilitator_url = "mock" =>
                /\ facilitator_url' = "mock"
                /\ \A i \in 1..Len(log') :
                      i > Len(log) => log'[i].url = "mock"
      ]_vars

\* a flow of an agent that fell back has returned after three requests
C16_Witness ==
    /\ AgentDone
    /\ facilitator_url = "mock"
    /\ Len(log) >= 3
    /\ \A i \in 1..Len(log) : log[i].url = "mock"

(* C17: when the re-probe of the substituted URL also fails (transport      *)
(* failure or a status >= 500), construction has completed without raising, *)
(* the base URL is still the mock URL, no further probe was made, and the   *)
(* failed probe is what the discovery cache holds.                          *)
C17_FailedReprobeIsHarmless ==
    ( /\ prog = "agent"
      /\ Len(log) >= 2
      /\ log[2].site = "__init__"
      /\ ProbeUnusable(2) )
    => /\ pc = "idle"
       /\ ~raised
       /\ facilitator_url = "mock"
       /\ log[2].url = "mock"
       /\ Len(log) = 2
       /\ finfo = <<[status_code |-> log[2].code,
                     ok |-> log[2].state = "answered"]>>

\* both probes of the constructor failed at transport
C17_Witness ==
    /\ prog = "agent"
    /\ pc = "idle"
    /\ Len(log) = 2
    /\ log[1].state = "failed"
    /\ log[2].state = "failed"
    /\ facilitator_url = "mock"

\* the result dictionaries the agent currently holds that report a request
HeldResults ==
    {r \in UNION {{result[k][i] : i \in 1..Len(result[k])} : k \in Stages}
           \cup {create_res[i] : i \in 1..Len(create_res)}
           \cup {verify_res[i] : i \in 1..Len(verify_res)} :
        r.call # 0}

\* the last GET /list of the log that has its outcome
LastProbe ==
    {i \in Sent("list") :
        /\ log[i].state # "pending"
        /\ \A j \in Sent("list") : j > i => log[j].state = "pending"}

C19_ZeroOnlyWithoutAnswer ==
    AgentDone =>
        /\ result.create[1].status_code = 0 <=> log[1].state = "failed"
        /\ \A k \in Stages :
              AnsweredWith(result[k][1].call, HttpStatuses) =>
                  result[k][1].status_code # 0

(* C20: when _sign_eip712 finds no eth_account module or its signing step   *)
(* raises, nothing is raised: verify_with_signature issues exactly one      *)
(* POST /verify, whose body carries a null signature, and the outcome of    *)
(* that call reaches the flow, as the verify stage when it answered 2xx     *)
(* and under diagnostics.signature_attempt otherwise.                       *)
C20_UnsignedFallbackStillPosts ==
    prog = "agent" =>
        /\ pc = "vws_wait" =>
              /\ signer \in SignerStates
              /\ ~raised
              /\ Len(log) \in SignedVerify
              /\ signer # "signs" =>
                    /\ ~log[Len(log)].body.signature
                    /\ Cardinality(SignedVerify) = 1
        /\ pc = "done" =>
              \A k \in SignedVerify :
                  ~log[k].body.signature =>
                      /\ Cardinality(SignedVerify) = 1
                      /\ log[k].state # "pending"
                      /\ IF AnsweredWith(k, TwoHundreds)
                         THEN /\ result.verify[1].call = k
                              /\ result.verify[1].status_code = log[k].code
                         ELSE result.verify[1].diagnostics.signature_attempt
                                  = <<log[k].code>>

\* a verify posted with a null signature answered 2xx and became the stage
C20_Witness ==
    /\ AgentDone
    /\ \E k \in SignedVerify :
          /\ ~log[k].body.signature
          /\ AnsweredWith(k, TwoHundreds)
          /\ result.verify[1].call = k

----------------------------------------------------------------------------
(* C21.  Missing key, missing signing library.                              *)

\* the address the configuration yields: "none" when no key is configured,
\* when eth_account is missing or when the key is rejected
DerivedAddress ==
    IF prog = "agent" THEN InitWallet(config) ELSE DeriveAddress(config)

BodiesSent == {log[i].body : i \in 1..Len(log)}

\* C21 as stated: nothing aborts, without a key or without the signing
\* library no address is held, and every request body contains from_address
\* if and only if an address was derived.
C21_FromAddressIffDerived ==
    /\ ~raised
    /\ (config.private_key = "none" \/ ~config.account)
           => wallet_address = "none"
    /\ \A b \in BodiesSent :
          b.kind # "none"
              => (b.from_address # "absent" <=> DerivedAddress # "none")

\* C21 amended: nothing aborts, without a key or without the signing
\* library no address is held, and every body of a create_payment, verify
\* or settle request built by paid_api_call or by the module-level
\* functions contains from_address if and only if an address was derived;
\* the body of verify_with_signature always contains from_address, null
\* when no address was derived.
C21_FromAddressIffDerivedUnlessSigned ==
    /\ ~raised
    /\ (config.private_key = "none" \/ ~config.account)
           => wallet_address = "none"
    /\ \A b \in BodiesSent :
          /\ b.kind = "plain"
                => /\ b.from_address # "absent" <=> DerivedAddress # "none"
                   /\ b.from_address \in {"absent", "addr"}
          /\ b.kind = "eip712"
                => b.from_address = Nullable(DerivedAddress)
          /\ b.kind = "none" => b.from_address = "absent"

\* a key is configured but eth_account is missing: init_wallet raised, the
\* instance was constructed all the same and its flow posted without
\* from_address
C21_Witness ==
    /\ prog = "agent" /\ pc = "done"
    /\ config.private_key = "good" /\ ~config.account
    /\ wallet_address = "none"
    /\ \E b \in BodiesSent : b.kind = "plain" /\ b.from_address = "absent"

----------------------------------------------------------------------------
(* C22.  What x402_payment_tool returns.                                    *)

ToolDone == prog = "tool" /\ pc = "tool_done"

\* the result reports the HTTP answer to request i: its status, a parsed
\* body and the response headers
ReportsAnswer(r, i) ==
    /\ r.call = i
    /\ r.status_code = log[i].code
    /\ r.payload \in {"dict", "list", "text_dict"}
    /\ r.headers
    /\ r.error = "none"

\* C22: x402_payment_tool never raises and returns one result.  After its
\* probe it posts /create_payment; an answer other than 404 is returned with
\* its status, parsed body and headers and nothing else is posted; after a
\* 404 exactly one POST /verify with the same payload follows and its
\* outcome is returned; when the last POST failed at transport the result
\* has status_code 0 and an error.
C22_ToolReturnsOneResult ==
    /\ prog = "tool" => ~raised
    /\ ToolDone =>
          /\ Len(result.returned) = 1
          /\ Len(log) \in {2, 3}
          /\ log[1].ep = "list"
          /\ log[2].ep = "create_payment" /\ log[2].method = "POST"
          /\ (log[2].state = "answered" /\ log[2].code # 404)
                => /\ Len(log) = 2
                   /\ ReportsAnswer(result.returned[1], 2)
          /\ (log[2].state = "answered" /\ log[2].code = 404)
                => /\ Len(log) = 3
                   /\ log[3].ep = "verify" /\ log[3].method = "POST"
                   /\ log[3].body = log[2].body
                   /\ log[3].url = log[2].url
                   /\ result.returned[1].call = 3
                   /\ log[3].state = "answered"
                         => ReportsAnswer(result.returned[1], 3)
          /\ log[2].state = "failed" => Len(log) = 2
          /\ log[Len(log)].state = "failed"
                => /\ result.returned[1].status_code = 0
                   /\ result.returned[1].error = "transport"
                   /\ result.returned[1].call = Len(log)

\* the probe raised and POST /create_payment answered 200 with a JSON
\* object: that answer is what the tool returns
C22_Witness ==
    /\ ToolDone
    /\ log[1].state = "failed"
    /\ log[2].state = "answered" /\ log[2].code = 200
    /\ result.returned[1].status_code = 200
    /\ result.returned[1].payload = "dict"
    /\ result.returned[1].headers

----------------------------------------------------------------------------
(* C25.  The gates of x402_payment_full_flow.                               *)

FullDone == Done /\ prog = "full"

\* C25: in x402_payment_full_flow POST /verify is issued if and only if
\* POST /create_payment answered 2xx or 404, and the verify stage is the
\* "create failed; skipping verify" sentinel otherwise; POST /settle is
\* issued if and only if that verify answered 2xx, and the settle stage is
\* the "verify failed; skipping settle" sentinel otherwise; each of the
\* three endpoints gets at most one request and no signed verify is made.
C25_FullFlowGates ==
    prog = "full" =>
        /\ \A ep \in {"create_payment", "verify", "settle"} :
              Cardinality(Sent(ep)) <= 1
        /\ Sent("list") = {}
        /\ \A b \in BodiesSent : b.kind = "plain" /\ ~b.signature
        /\ \A i \in 1..Len(log) : log[i].site = "x402_payment_full_flow"
        /\ Sent("verify") # {} => AnsweredWith(1, TwoHundreds \cup {404})
        /\ Sent("settle") # {} =>
              \E i \in Sent("verify") : AnsweredWith(i, TwoHundreds)
        /\ Done =>
              /\ log[1].ep = "create_payment"
              /\ AnsweredWith(1, TwoHundreds \cup {404}) => Sent("verify") # {}
              /\ Sent("verify") = {} =>
                    /\ result.verify[1].status_code = 0
                    /\ result.verify[1].error = SkipVerifyMsg
              /\ (\E i \in Sent("verify") : AnsweredWith(i, TwoHundreds))
                    => Sent("settle") # {}
              /\ Sent("settle") = {} =>
                    /\ result.settle[1].status_code = 0
                    /\ result.settle[1].error = SkipSettleMsg

\* POST /create_payment answered 400: nothing else was sent and both later
\* stages are sentinels
C25_Witness ==
    /\ FullDone
    /\ AnsweredWith(1, {400})
    /\ Len(log) = 1
    /\ result.verify[1].error = SkipVerifyMsg
    /\ result.settle[1].error = SkipSettleMsg

----------------------------------------------------------------------------
(* C26.  The "verified-as-create" label.                                    *)

\* POST /create_payment answered 404 and the POST /verify issued right
\* after it by create_payment_session answered 2xx
VerifiedFallback ==
    /\ AnsweredWith(1, {404})
    /\ 2 \in SessionVerify
    /\ AnsweredWith(2, TwoHundreds)

\* C26: the create stage is labelled "verified-as-create" only in flows
\* where POST /create_payment answered 404 and the POST /verify issued right
\* after it answered 2xx; in those flows the create stage's status_code is
\* that verify's status; in every other flow the create stage is not
\* relabelled.
C26_LabelOnlyAfterVerifiedFallback ==
    (InAgentFlow /\ result.create # <<>>) =>
        LET c == result.create[1] IN
        /\ c.payload = "verified-as-create" => VerifiedFallback
        /\ VerifiedFallback => c.status_code = log[2].code
        /\ ~VerifiedFallback => c.payload # "verified-as-create"

----------------------------------------------------------------------------
(* C27.  The discovery cache after construction.                            *)

\* C27: once the constructor's first probe has its outcome, and so in every
\* state after construction, the discovery cache is not empty; paid_api_call
\* therefore never issues a GET /list of its own and never attaches
\* facilitator_info to a result; the only GET /list of a flow is the one
\* create_payment_session makes after POST /create_payment answered 400.
C27_CacheNeverEmptyAfterConstruction ==
    prog = "agent" =>
        /\ pc \notin {"ctor", "ctor_probe"} => Len(finfo) = 1
        /\ SentFrom("paid_api_call") = {}
        /\ \A r \in HeldDicts : ~r.facilitator_info
        /\ InAgentFlow =>
              /\ Cardinality(Sent("list")) <= 1
              /\ \A i \in Sent("list") :
                    /\ log[i].method = "GET"
                    /\ log[i].site = "create_payment_session"
                    /\ AnsweredWith(1, {400})

\* both probes of the constructor failed, so the cache holds a failed
\* probe; POST /create_payment then answered 500 and no GET /list followed
C27_Witness ==
    /\ AgentDone
    /\ finfo = <<[status_code |-> 0, ok |-> FALSE]>>
    /\ AnsweredWith(1, {500})
    /\ Sent("list") = {}
    /\ result.create[1].request_body
    /\ ~result.create[1].facilitator_info

----------------------------------------------------------------------------
(* C29.  The network field of the module-level functions.                   *)

\* C29: x402_payment_tool and x402_payment_full_flow put the same network
\* field into their request bodies: the field is present if and only if a
\* network is configured, by the network argument or by X402_NETWORK, and
\* it holds the configured value, the argument taking precedence.
C29_SameNetworkField ==
    prog \in {"tool", "full"} =>
        \A b \in BodiesSent :
            b.kind = "plain" => b.network = Optional(ConfiguredNetwork(config))

----------------------------------------------------------------------------
(* C24.  The gateway's challenge.                                           *)

\* the challenge applies: a pattern ending in "/*" covers the paths that
\* continue the pattern without its "*", any other pattern its own path
ChallengeApplies(path, pattern) ==
    IF Len(pattern) >= 2 /\ pattern[Len(pattern)] = "*"
                         /\ pattern[Len(pattern) - 1] = "/"
    THEN \E tail \in {SubSeq(path, i, Len(path)) : i \in 1..(Len(path) + 1)} :
            path \o <<"*">> = SubSeq(pattern, 1, Len(pattern) - 1) \o tail
                                  \o <<"*">>
    ELSE path = pattern

CasePairs ==
    { {"t", "T"}, {"r", "R"}, {"u", "U"}, {"e", "E"}, {"y", "Y"}, {"s", "S"} }

\* the same word up to the case of its letters
SameIgnoringCase(v, w) ==
    /\ Len(v) = Len(w)
    /\ \A i \in 1..Len(v) : v[i] = w[i] \/ {v[i], w[i]} \in CasePairs

\* the X-MOCK-PAYED header is present and is "1", "true" or "yes" in any case
MockPayed(header) ==
    /\ header # <<>>
    /\ \E w \in { <<"1">>, <<"t", "r", "u", "e">>, <<"y", "e", "s">> } :
          SameIgnoringCase(header[1], w)

ChallengeKeys ==
    {"error", "required_price", "pay_to", "network", "facilitator"}

\* C24: for a request the challenge applies to, the handler is invoked if
\* and only if the X-MOCK-PAYED header is, in any case, one of "1", "true",
\* "yes"; otherwise the response is 402 with error "payment_required" and
\* the keys required_price, pay_to, network, facilitator and the handler is
\* not invoked; a request the challenge does not apply to is always
\* forwarded to the handler.
C24_ChallengeExactlyOnMatch ==
    prog = "gateway" =>
        LET applies == ChallengeApplies(gateway.path, gateway.pattern)
            payed == MockPayed(gateway.header)
        IN
        /\ pc = "gw_handler" => gateway.forwarded /\ (~applies \/ payed)
        /\ pc = "gw_responded" =>
              /\ Len(gateway.response) = 1
              /\ gateway.forwarded <=> (~applies \/ payed)
              /\ gateway.forwarded =>
                    gateway.response[1].status_code \in HandlerStatuses
              /\ ~gateway.forwarded =>
                    /\ gateway.response[1].status_code = 402
                    /\ DOMAIN gateway.response[1].content = ChallengeKeys
                    /\ gateway.response[1].content.error = "payment_required"

\* "/a/b" under the pattern "/a/*" with X-MOCK-PAYED: TRUE reached the
\* handler
C24_Witness ==
    /\ prog = "gateway" /\ pc = "gw_responded"
    /\ gateway.pattern = <<"/", "a", "/", "*">>
    /\ gateway.path = <<"/", "a", "/", "b">>
    /\ gateway.header = << <<"T", "R", "U", "E">> >>
    /\ gateway.forwarded

----------------------------------------------------------------------------
(* C28.  Termination and the number of requests.                            *)

FlowRunning == prog = "agent" /\ pc \notin {"idle", "done"}

\* the requests of the running flow stay within the limits of the claim
WithinRequestLimits ==
    /\ Len(log) <= 6
    /\ Cardinality(Sent("create_payment")) <= 1
    /\ Cardinality(Sent("verify")) <= 3
    /\ Cardinality(Sent("list")) <= 1
    /\ Cardinality(Sent("settle")) <= 1

\* C28: when every HTTP call returns or times out, a started
\* complete_payment_flow always returns, and at no point has it issued more
\* than six requests: at most one POST /create_payment, three POST /verify
\* (the signed one included), one GET /list and one POST /settle.
C28_TerminatesWithinSixRequests ==
    /\ [](WithinRequestLimits)
    /\ (FlowRunning ~> AgentDone)

\* a flow has returned after six requests: create 400, verify, list,
\* verify, signed verify, settle
C28_Witness ==
    /\ AgentDone
    /\ Len(log) = 6
    /\ Cardinality(Sent("verify")) = 3
    /\ Cardinality(Sent("list")) = 1
    /\ Cardinality(Sent("settle")) = 1

----------------------------------------------------------------------------
(* C23.  Concurrent flows on one instance.                                  *)

\* the call a request makes: who issues it, what and where
Call(r) ==
    [site |-> r.site, method |-> r.method, ep |-> r.ep, url |-> r.url,
     kind |-> r.body.kind]

\* requests i of two logs got the same answer from the facilitator
SameAnswer(l1, l2, i) ==
    l1[i].state = l2[i].state /\ l1[i].code = l2[i].code

\* two flows whose requests were answered alike up to some point made the
\* same calls up to there and the same next call; if both have returned
\* after the same answers they made equally many calls and their stages
\* have the same status codes
SameCourse(f1, f2) ==
    LET l1 == f1.log
        l2 == f2.log
        shorter == IF Len(l1) <= Len(l2) THEN Len(l1) ELSE Len(l2)
        alike(n) == \A j \in 1..n :
                       l1[j].state # "pending" /\ SameAnswer(l1, l2, j)
    IN
    /\ \A i \in 1..shorter : alike(i - 1) => Call(l1[i]) = Call(l2[i])
    /\ (f1.pc = "done" /\ f2.pc = "done" /\ alike(shorter)) =>
          /\ Len(l1) = Len(l2)
          /\ \A k \in Stages :
                f1.result[k][1].status_code = f2.result[k][1].status_code

\* C23: with two complete_payment_flow calls interleaved in any way on one
\* instance, the calls a flow makes and the status codes of its three
\* stages are determined by the answers to its own requests alone: two
\* flows answered alike run alike, whatever the other one wrote into the
\* shared discovery cache meanwhile; and no step of a flow writes the base
\* URL.
C23_FlowsDoNotInterfere ==
    /\ [](suspended # <<>> => SameCourse(RunningFlow, suspended[1]))
    /\ [][facilitator_url' = facilitator_url]_vars

\* a flow is waiting for the answer to its verify, its own GET /list was
\* answered 200, and the cache holds the failed probe of the other flow,
\* which is still running
C23_Witness ==
    /\ suspended # <<>>
    /\ pc = "cpf_verify_wait"
    /\ \E i \in Sent("list") : AnsweredWith(i, {200})
    /\ finfo = <<[status_code |-> 0, ok |-> FALSE]>>
    /\ suspended[1].pc \notin {"idle", "done"}
    /\ \E i \in 1..Len(suspended[1].log) :
          /\ suspended[1].log[i].ep = "list"
          /\ suspended[1].log[i].state = "failed"

====
